---- MODULE Spec2Model ----
(***************************************************************************)
(* DockercfgController (pkg/serviceaccounts/controllers/                   *)
(* create_dockercfg_secrets.go): for one service account, the handlers     *)
(* serviceAccountAdded / serviceAccountUpdated run                         *)
(* createDockercfgSecretIfNeeded against an API store that holds the       *)
(* service account (with a ResourceVersion checked on Update) and the      *)
(* secrets.  Every store call of the controller is one step, so that any   *)
(* other actor can act between two calls of the same invocation.           *)
(***************************************************************************)
EXTENDS Integers, Sequences, FiniteSets, TLC

\* ------------------------------------------------------------------ bounds
MaxSuffix == 2          \* distinct random suffixes GenerateName can draw
MaxRV == 1              \* external writers stop once ResourceVersion reaches it
MaxDeliveries == 2      \* notifications the change feed delivers to the handler
MaxExternalDeletes == 1 \* secrets removed by actors other than the controller

\* line 221 sets tokenSecretWaitTimes to 100; the wait loop is explored with a
\* scaled-down count, which keeps every path of the loop (first turn, a later
\* turn, the last turn, exhaustion)
tokenSecretWaitTimes == 2

\* --------------------------------------------------------------- names
\* A name is a sequence of character codes; only order and prefixes matter.
Handlers == {1, 2}
Suffixes == 1..MaxSuffix
URLs == {"registry-a", "registry-b"}

ServiceAccountName == <<1>>

GetDockercfgSecretNamePrefix(serviceAccount) == serviceAccount.Name \o <<2>>

GetTokenSecretNamePrefix(serviceAccount) == serviceAccount.Name \o <<3>>

\* secret.Strategy.GenerateName: the prefix followed by a random suffix
GenerateName(prefix, suffix) == prefix \o <<suffix>>

HasPrefix(s, prefix) ==
  /\ Len(s) >= Len(prefix)
  /\ SubSeq(s, 1, Len(prefix)) = prefix

RECURSIVE LexLess(_, _)
LexLess(a, b) ==
  IF a = <<>> THEN b # <<>>
  ELSE IF b = <<>> THEN FALSE
  ELSE IF Head(a) < Head(b) THEN TRUE
  ELSE IF Head(a) > Head(b) THEN FALSE
  ELSE LexLess(Tail(a), Tail(b))

\* sets.String.List(): the members in lexicographic order
RECURSIVE List(_)
List(S) ==
  IF S = {} THEN <<>>
  ELSE LET m == CHOOSE x \in S : \A y \in S \ {x} : LexLess(x, y)
       IN  <<m>> \o List(S \ {m})

Range(seq) == {seq[k] : k \in 1..Len(seq)}

getGeneratedDockercfgSecretNames(serviceAccount) ==
  LET secretNamePrefix == GetDockercfgSecretNamePrefix(serviceAccount)
  IN  [mountable |-> {n \in Range(serviceAccount.Secrets) : HasPrefix(n, secretNamePrefix)},
       image     |-> {n \in Range(serviceAccount.ImagePullSecrets) : HasPrefix(n, secretNamePrefix)}]

\* --------------------------------------------------------------- errors
Err(reason, name) == [reason |-> reason, name |-> name]
nil == Err("nil", <<>>)
ServerError == Err("ServerError", <<>>)
Conflict == Err("Conflict", ServiceAccountName)
NotFound(name) == Err("NotFound", name)
AlreadyExists(name) == Err("AlreadyExists", name)
TokenNeverGenerated(name) == Err("token never generated for", name)

IsConflict(e) == e.reason = "Conflict"
IsNotFound(e) == e.reason = "NotFound"

\* what a store call can answer besides doing its work
CallFailures == {nil, ServerError}

\* --------------------------------------------------------------- objects
ServiceAccount(rv, mountable, image) ==
  [Name |-> ServiceAccountName, ResourceVersion |-> rv,
   Secrets |-> mountable, ImagePullSecrets |-> image]

NoServiceAccount == ServiceAccount(-1, <<>>, <<>>)

TokenSecret(name) ==
  [Name |-> name, Type |-> "ServiceAccountToken", Filled |-> FALSE,
   TokenSecretName |-> <<>>, URL |-> ""]

DockercfgSecret(name, tokenName, url) ==
  [Name |-> name, Type |-> "Dockercfg", Filled |-> TRUE,
   TokenSecretName |-> tokenName, URL |-> url]

DockercfgName(suffix) ==
  GenerateName(GetDockercfgSecretNamePrefix([Name |-> ServiceAccountName]), suffix)

TokenName(suffix) ==
  GenerateName(GetTokenSecretNamePrefix([Name |-> ServiceAccountName]), suffix)

\* names other actors put in the lists: a token secret, and a dockercfg secret
\* generated elsewhere (its suffix is none of those this controller draws here)
ExternalNames == {TokenName(1), DockercfgName(0)}

\* the lists a service account may hold when the controller first sees it
InitialLists ==
  { <<<<TokenName(1)>>, <<>>>>,
    <<<<>>, <<DockercfgName(1)>>>>,
    <<<<DockercfgName(2), TokenName(1), DockercfgName(1)>>, <<>>>>,
    <<<<DockercfgName(1)>>, <<DockercfgName(1)>>>> }

VARIABLES
  sa,             \* the stored service account
  versions,       \* every value of the service account the store has held
  secrets,        \* the stored secrets
  dockerURL,      \* e.dockerURL
  dockerURLLock,  \* e.dockerURLLock: 0 when free, else its holder
  setter,         \* the SetDockerURL caller: "idle" or "locked"
  externalDeletes,\* secrets deleted so far by other actors
  remaining,      \* notifications still to be delivered to each handler
  pc,             \* where each handler invocation stands
  local,          \* the invocation's local variables
  hist,           \* what the invocation has done so far (history)
  prev            \* summary of the handler's previous invocation (history)

vars == <<sa, versions, secrets, dockerURL, dockerURLLock, setter,
          externalDeletes, remaining, pc, local, hist, prev>>

SetterId == 3

NoLocal ==
  [serviceAccount |-> NoServiceAccount, liveServiceAccount |-> NoServiceAccount,
   branch |-> "none", tokenSecret |-> <<>>, dockercfgSecretName |-> <<>>,
   i |-> 0, linkErr |-> nil, err |-> nil]

NoHist ==
  [concurrent |-> {}, rereadRV |-> -1, liveRead |-> NoServiceAccount,
   startRV |-> -1, createdToken |-> <<>>, createdDockercfg |-> <<>>,
   linked |-> FALSE, wrote |-> FALSE, stored |-> NoServiceAccount, foreign |-> NoServiceAccount,
   deleteErr |-> Err("none", <<>>), reported |-> {},
   issued |-> [saUpdate |-> 0, tokenCreate |-> 0, tokenGet |-> 0, dockercfgCreate |-> 0,
               delete |-> 0]]

NoPrev ==
  [wrote |-> FALSE, serviceAccount |-> NoServiceAccount, stored |-> NoServiceAccount]

InitStore ==
  /\ \E l \in InitialLists : sa = ServiceAccount(0, l[1], l[2])
  /\ versions = {sa}
  /\ secrets = {}
  /\ dockerURL = "registry-a"
  /\ dockerURLLock = 0
  /\ setter = "idle"
  /\ externalDeletes = 0
  /\ pc = [p \in Handlers |-> "idle"]
  /\ local = [p \in Handlers |-> NoLocal]
  /\ hist = [p \in Handlers |-> NoHist]
  /\ prev = [p \in Handlers |-> NoPrev]

\* one handler goroutine, as the informer framework runs it
Init ==
  /\ InitStore
  /\ remaining = [p \in Handlers |-> IF p = 1 THEN MaxDeliveries ELSE 0]

\* two overlapping invocations, one notification each
InitOverlap ==
  /\ InitStore
  /\ remaining = [p \in Handlers |-> 1]

\* ------------------------------------------------------------- helpers
Returned(p) == pc[p] = "returned"

\* the part of an invocation a foreign write of the service account falls in
Phase(at) ==
  IF at \in {"FreshGet", "CreateToken", "PollGet", "DeleteToken", "Lock",
             "CreateDockercfg", "LinkGet"} THEN "beforeGet"
  ELSE IF at = "LinkUpdate" THEN "afterGet"
  ELSE "afterLink"

\* history: every invocation under way other than the writer's saw a foreign write
MarkConcurrent(h, writer, written) ==
  [p \in Handlers |->
     IF p # writer /\ pc[p] # "idle"
     THEN [h[p] EXCEPT !.concurrent = @ \cup {Phase(pc[p])}, !.foreign = written]
     ELSE h[p]]

SecretNamed(name) == {s \in secrets : s.Name = name}

\* a repair that links the first generated name in list order
firstListedDockercfgSecretName(serviceAccount) ==
  LET prefix == GetDockercfgSecretNamePrefix(serviceAccount)
      mountable == SelectSeq(serviceAccount.Secrets, LAMBDA n : HasPrefix(n, prefix))
      image == SelectSeq(serviceAccount.ImagePullSecrets, LAMBDA n : HasPrefix(n, prefix))
  IN  IF image # <<>> THEN image[1] ELSE mountable[1]

\* lines 135-141: the name the repair branch links
repairDockercfgSecretName(serviceAccount) ==
  LET g == getGeneratedDockercfgSecretNames(serviceAccount)
  IN  IF g.image # {} THEN List(g.image)[1] ELSE List(g.mountable)[1]

\* a controller that creates without looking at the re-read ResourceVersion
viewAlwaysUpToDate(liveServiceAccount, serviceAccount) == TRUE

\* line 157: the freshness test before the expensive creation
viewIsUpToDate(liveServiceAccount, serviceAccount) ==
  liveServiceAccount.ResourceVersion = serviceAccount.ResourceVersion

\* a linker that never refuses a stale decision
staleDecisionIgnored(staleServiceAccount, liveServiceAccount) == FALSE

\* a linker that compares the mountable secrets only
staleDecisionMountableOnly(staleServiceAccount, liveServiceAccount) ==
  LET live == getGeneratedDockercfgSecretNames(liveServiceAccount)
      stale == getGeneratedDockercfgSecretNames(staleServiceAccount)
  IN  List(stale.mountable) # List(live.mountable)

\* line 195: the decision was taken on stale lists of dockercfg secrets
staleDecision(staleServiceAccount, liveServiceAccount) ==
  LET live == getGeneratedDockercfgSecretNames(liveServiceAccount)
      stale == getGeneratedDockercfgSecretNames(staleServiceAccount)
  IN  \/ List(stale.mountable) # List(live.mountable)
      \/ List(stale.image) # List(live.image)

\* a linker that forgets the image pull secrets
withMountableReferenceOnly(staleServiceAccount, liveServiceAccount, dockercfgSecretName) ==
  LET g == getGeneratedDockercfgSecretNames(liveServiceAccount)
  IN  [liveServiceAccount EXCEPT
         !.Secrets = IF dockercfgSecretName \notin g.mountable
                     THEN Append(@, dockercfgSecretName) ELSE @]

\* a linker that appends without looking for the name
withDockercfgReferenceAlways(staleServiceAccount, liveServiceAccount, dockercfgSecretName) ==
  [liveServiceAccount EXCEPT
     !.Secrets = Append(@, dockercfgSecretName),
     !.ImagePullSecrets = Append(@, dockercfgSecretName)]

\* a linker that appends to the caller's snapshot instead of the live object
withDockercfgReferenceOnStale(staleServiceAccount, liveServiceAccount, dockercfgSecretName) ==
  LET g == getGeneratedDockercfgSecretNames(staleServiceAccount)
  IN  [staleServiceAccount EXCEPT
         !.ResourceVersion = liveServiceAccount.ResourceVersion,
         !.Secrets = IF dockercfgSecretName \notin g.mountable
                     THEN Append(@, dockercfgSecretName) ELSE @,
         !.ImagePullSecrets = IF dockercfgSecretName \notin g.image
                              THEN Append(@, dockercfgSecretName) ELSE @]

\* lines 199-208: the live service account with the missing references appended
withDockercfgReference(staleServiceAccount, liveServiceAccount, dockercfgSecretName) ==
  LET g == getGeneratedDockercfgSecretNames(liveServiceAccount)
  IN  [liveServiceAccount EXCEPT
         !.Secrets = IF dockercfgSecretName \notin g.mountable
                     THEN Append(@, dockercfgSecretName) ELSE @,
         !.ImagePullSecrets = IF dockercfgSecretName \notin g.image
                              THEN Append(@, dockercfgSecretName) ELSE @]

\* a caller that deletes the dockercfg secret after any error of the linker
afterLinkPcCleanupAlways(branch, linkErr) ==
  IF branch = "create" /\ linkErr # nil THEN "DeleteDockercfg" ELSE "returned"

\* a caller that calls the linker again after a Conflict
afterLinkPcRetry(branch, linkErr) == IF IsConflict(linkErr) THEN "LinkGet" ELSE "returned"

\* a caller that leaves the dockercfg secret behind after a Conflict
afterLinkPcNoCleanup(branch, linkErr) == "returned"

\* lines 144-149 and 171-181: what the caller does with the linker's answer
afterLinkPc(branch, linkErr) ==
  IF branch = "create" /\ IsConflict(linkErr) THEN "DeleteDockercfg" ELSE "returned"

\* a caller that hands every answer of the linker on to its own caller
afterLinkErrPropagated(linkErr) == linkErr

\* lines 144-149 and 171-181: a Conflict is swallowed, any other error is returned
afterLinkErr(linkErr) == IF IsConflict(linkErr) THEN nil ELSE linkErr

\* a wait loop that gives up after the first unfilled fetch
pollAgainNever(i) == FALSE

\* lines 246 and 258: the loop goes on while i <= tokenSecretWaitTimes
pollAgain(i) == i <= tokenSecretWaitTimes

\* a createDockerPullSecret that returns without unlocking
lockKeptAfterCreateDockerPullSecret(p) == p

\* line 291: the deferred Unlock runs when createDockerPullSecret returns
lockAfterCreateDockerPullSecret(p) == 0

\* ------------------------------------------------ the handler invocation
\* lines 121-151: createDockercfgSecretIfNeeded classifies the snapshot it was given
Classify(p, serviceAccount) ==
  LET g == getGeneratedDockercfgSecretNames(serviceAccount)
      foundPullSecret == g.image # {}
      foundMountableSecret == g.mountable # {}
      l == [NoLocal EXCEPT !.serviceAccount = serviceAccount]
  IN  IF foundPullSecret /\ foundMountableSecret
      THEN /\ pc' = [pc EXCEPT ![p] = "returned"]
           /\ local' = [local EXCEPT ![p] = l]
      ELSE IF foundPullSecret \/ foundMountableSecret
      THEN /\ pc' = [pc EXCEPT ![p] = "LinkGet"]
           /\ local' = [local EXCEPT ![p] =
                [l EXCEPT !.branch = "repair",
                          !.dockercfgSecretName = repairDockercfgSecretName(serviceAccount)]]
      ELSE /\ pc' = [pc EXCEPT ![p] = "FreshGet"]
           /\ local' = [local EXCEPT ![p] = [l EXCEPT !.branch = "create"]]

\* lines 103-151: the change feed calls serviceAccountAdded or serviceAccountUpdated
\* with some version of the service account; the snapshot is classified.
Start(p) ==
  /\ pc[p] = "idle"
  /\ remaining[p] > 0
  /\ \E serviceAccount \in versions : Classify(p, serviceAccount)
  /\ remaining' = [remaining EXCEPT ![p] = @ - 1]
  /\ hist' = [hist EXCEPT ![p] = [NoHist EXCEPT !.startRV = sa.ResourceVersion]]
  /\ UNCHANGED <<sa, versions, secrets, dockerURL, dockerURLLock, setter,
                 externalDeletes, prev>>

\* lines 103-151: the informer's resync calls serviceAccountUpdated with the service
\* account as it is stored, as often as it likes
Resync(p) ==
  /\ pc[p] = "idle"
  /\ Classify(p, sa)
  /\ hist' = [hist EXCEPT ![p] = [NoHist EXCEPT !.startRV = sa.ResourceVersion]]
  /\ UNCHANGED <<sa, versions, secrets, dockerURL, dockerURLLock, setter,
                 externalDeletes, remaining, prev>>

\* lines 155-163: re-read the service account before creating anything
FreshGet(p) ==
  /\ pc[p] = "FreshGet"
  /\ \E e \in CallFailures :
       IF e # nil
       THEN /\ pc' = [pc EXCEPT ![p] = "returned"]
            /\ local' = [local EXCEPT ![p].err = e]
            /\ UNCHANGED hist
       ELSE /\ hist' = [hist EXCEPT ![p].rereadRV = sa.ResourceVersion]
            /\ IF viewIsUpToDate(sa, local[p].serviceAccount)
               THEN /\ pc' = [pc EXCEPT ![p] = "CreateToken"]
                    /\ UNCHANGED local
               ELSE /\ pc' = [pc EXCEPT ![p] = "returned"]
                    /\ local' = [local EXCEPT ![p].err = nil]
  /\ UNCHANGED <<sa, versions, secrets, dockerURL, dockerURLLock, setter,
                 externalDeletes, remaining, prev>>

\* lines 225-242: createTokenSecret creates the empty token secret
CreateToken(p) ==
  /\ pc[p] = "CreateToken"
  /\ \E e \in CallFailures, suffix \in Suffixes :
       LET name == GenerateName(GetTokenSecretNamePrefix(local[p].serviceAccount), suffix)
           answer == IF e # nil THEN e
                     ELSE IF SecretNamed(name) # {} THEN AlreadyExists(name) ELSE nil
       IN  /\ hist' = [hist EXCEPT ![p].issued.tokenCreate = @ + 1,
                                   ![p].createdToken = IF answer = nil THEN name ELSE @]
           /\ IF answer = nil
              THEN /\ secrets' = secrets \cup {TokenSecret(name)}
                   /\ pc' = [pc EXCEPT ![p] = "PollGet"]
                   /\ local' = [local EXCEPT ![p].tokenSecret = name, ![p].i = 0]
              ELSE /\ pc' = [pc EXCEPT ![p] = "returned"]
                   /\ local' = [local EXCEPT ![p].err = answer]
                   /\ UNCHANGED secrets
  /\ UNCHANGED <<sa, versions, dockerURL, dockerURLLock, setter,
                 externalDeletes, remaining, prev>>

\* a wait loop whose counter starts over instead of reaching its bound
PollGetWrapping(p) ==
  /\ pc[p] = "PollGet"
  /\ \E e \in CallFailures :
       LET found == SecretNamed(local[p].tokenSecret)
           err2 == IF e # nil THEN e
                   ELSE IF found = {} THEN NotFound(local[p].tokenSecret) ELSE nil
       IN  IF err2 # nil
           THEN /\ pc' = [pc EXCEPT ![p] = "returned"]
                /\ local' = [local EXCEPT ![p].err = err2]
           ELSE IF \E s \in found : s.Filled
           THEN /\ pc' = [pc EXCEPT ![p] = "Lock"]
                /\ UNCHANGED local
           ELSE /\ local' = [local EXCEPT ![p].i = (@ + 1) % (tokenSecretWaitTimes + 1)]
                /\ pc' = [pc EXCEPT ![p] = "PollGet"]
  /\ UNCHANGED <<sa, versions, secrets, dockerURL, dockerURLLock, setter,
                 externalDeletes, remaining, hist, prev>>

\* lines 246-258: one turn of the wait loop: fetch the token secret, return it when it
\* is filled, otherwise sleep and count
PollGet(p) ==
  /\ pc[p] = "PollGet"
  /\ \E e \in CallFailures :
       LET found == SecretNamed(local[p].tokenSecret)
           err2 == IF e # nil THEN e
                   ELSE IF found = {} THEN NotFound(local[p].tokenSecret) ELSE nil
       IN  IF err2 # nil
           THEN /\ pc' = [pc EXCEPT ![p] = "returned"]
                /\ local' = [local EXCEPT ![p].err = err2]
           ELSE IF \E s \in found : s.Filled
           THEN /\ pc' = [pc EXCEPT ![p] = "Lock"]
                /\ UNCHANGED local
           ELSE /\ local' = [local EXCEPT ![p].i = @ + 1]
                /\ pc' = [pc EXCEPT ![p] =
                            IF pollAgain(local[p].i + 1) THEN "PollGet" ELSE "DeleteToken"]
  /\ hist' = [hist EXCEPT ![p].issued.tokenGet = @ + 1]
  /\ UNCHANGED <<sa, versions, secrets, dockerURL, dockerURLLock, setter,
                 externalDeletes, remaining, prev>>

\* a createTokenSecret that fails without deleting the unfilled token
DeleteTokenForgotten(p) ==
  /\ pc[p] = "DeleteToken"
  /\ local' = [local EXCEPT ![p].err = TokenNeverGenerated(local[p].tokenSecret)]
  /\ pc' = [pc EXCEPT ![p] = "returned"]
  /\ UNCHANGED <<sa, versions, secrets, dockerURL, dockerURLLock, setter,
                 externalDeletes, remaining, hist, prev>>

\* lines 260-265: the token was never filled: delete it and fail
DeleteToken(p) ==
  /\ pc[p] = "DeleteToken"
  /\ \E e \in CallFailures :
       LET name == local[p].tokenSecret
           deleteErr == IF e # nil THEN e
                        ELSE IF SecretNamed(name) = {} THEN NotFound(name) ELSE nil
       IN  /\ secrets' = IF deleteErr = nil THEN secrets \ SecretNamed(name) ELSE secrets
           /\ hist' = [hist EXCEPT
                 ![p].issued.delete = @ + 1,
                 ![p].deleteErr = deleteErr,
                 ![p].reported = IF deleteErr # nil /\ ~IsNotFound(deleteErr)
                                 THEN @ \cup {deleteErr} ELSE @]
           /\ local' = [local EXCEPT ![p].err = TokenNeverGenerated(name)]
  /\ pc' = [pc EXCEPT ![p] = "returned"]
  /\ UNCHANGED <<sa, versions, dockerURL, dockerURLLock, setter,
                 externalDeletes, remaining, prev>>

\* lines 269-291: the token is filled; createDockerPullSecret takes dockerURLLock
Lock(p) ==
  /\ pc[p] = "Lock"
  /\ dockerURLLock = 0
  /\ dockerURLLock' = p
  /\ pc' = [pc EXCEPT ![p] = "CreateDockercfg"]
  /\ UNCHANGED <<sa, versions, secrets, dockerURL, setter,
                 externalDeletes, remaining, local, hist, prev>>

\* lines 293-310: build the dockercfg for e.dockerURL and create the secret; the
\* deferred Unlock runs on return
CreateDockercfg(p) ==
  /\ pc[p] = "CreateDockercfg"
  /\ dockerURLLock = p
  /\ \E e \in CallFailures, suffix \in Suffixes :
       LET name == GenerateName(GetDockercfgSecretNamePrefix(local[p].serviceAccount), suffix)
           answer == IF e # nil THEN e
                     ELSE IF SecretNamed(name) # {} THEN AlreadyExists(name) ELSE nil
       IN  /\ hist' = [hist EXCEPT ![p].issued.dockercfgCreate = @ + 1,
                                   ![p].createdDockercfg = IF answer = nil THEN name ELSE @]
           /\ IF answer = nil
              THEN /\ secrets' = secrets \cup
                                   {DockercfgSecret(name, local[p].tokenSecret, dockerURL)}
                   /\ pc' = [pc EXCEPT ![p] = "LinkGet"]
                   /\ local' = [local EXCEPT ![p].dockercfgSecretName = name]
              ELSE /\ pc' = [pc EXCEPT ![p] = "returned"]
                   /\ local' = [local EXCEPT ![p].err = answer]
                   /\ UNCHANGED secrets
  /\ dockerURLLock' = lockAfterCreateDockerPullSecret(p)
  /\ UNCHANGED <<sa, versions, dockerURL, setter,
                 externalDeletes, remaining, prev>>

\* lines 185-208 (and the caller's lines 143-149, 170-181 when the linker returns
\* here): fetch the live service account, refuse a stale decision, append the references
LinkGet(p) ==
  /\ pc[p] = "LinkGet"
  /\ \E e \in CallFailures :
       LET stale == local[p].serviceAccount
           updated == withDockercfgReference(stale, sa, local[p].dockercfgSecretName)
           changed == updated # sa
           linkErr == IF e # nil THEN e
                      ELSE IF staleDecision(stale, sa) THEN Conflict ELSE nil
       IN  /\ hist' = [hist EXCEPT ![p].liveRead = IF e = nil THEN sa ELSE @,
                                   ![p].linked = ~(linkErr = nil /\ changed)]
           /\ IF linkErr = nil /\ changed
              THEN /\ pc' = [pc EXCEPT ![p] = "LinkUpdate"]
                   /\ local' = [local EXCEPT ![p].liveServiceAccount = updated]
              ELSE /\ pc' = [pc EXCEPT ![p] = afterLinkPc(local[p].branch, linkErr)]
                   /\ local' = [local EXCEPT
                        ![p].liveServiceAccount = IF e = nil THEN sa ELSE @,
                        ![p].linkErr = linkErr,
                        ![p].err = afterLinkErr(linkErr)]
  /\ UNCHANGED <<sa, versions, secrets, dockerURL, dockerURLLock, setter,
                 externalDeletes, remaining, prev>>

\* lines 210-216 (and the caller's lines 143-149, 170-181): Update the live service
\* account; the store accepts it only at the ResourceVersion it carries
LinkUpdate(p) ==
  /\ pc[p] = "LinkUpdate"
  /\ \E e \in CallFailures :
       LET live == local[p].liveServiceAccount
           linkErr == IF e # nil THEN e
                      ELSE IF live.ResourceVersion # sa.ResourceVersion THEN Conflict
                      ELSE nil
           written == [live EXCEPT !.ResourceVersion = sa.ResourceVersion + 1]
           h == [hist EXCEPT ![p].issued.saUpdate = @ + 1, ![p].linked = TRUE]
       IN  /\ IF linkErr = nil
              THEN /\ sa' = written
                   /\ versions' = versions \cup {written}
                   /\ hist' = MarkConcurrent(
                        [h EXCEPT ![p].wrote = TRUE, ![p].stored = written], p, written)
              ELSE /\ hist' = h
                   /\ UNCHANGED <<sa, versions>>
           /\ pc' = [pc EXCEPT ![p] = afterLinkPc(local[p].branch, linkErr)]
           /\ local' = [local EXCEPT ![p].linkErr = linkErr,
                                     ![p].err = afterLinkErr(linkErr)]
  /\ UNCHANGED <<secrets, dockerURL, dockerURLLock, setter,
                 externalDeletes, remaining, prev>>

\* lines 171-179: the link met a Conflict: delete the dockercfg secret just created
DeleteDockercfg(p) ==
  /\ pc[p] = "DeleteDockercfg"
  /\ \E e \in CallFailures :
       LET name == local[p].dockercfgSecretName
           deleteErr == IF e # nil THEN e
                        ELSE IF SecretNamed(name) = {} THEN NotFound(name) ELSE nil
       IN  /\ secrets' = IF deleteErr = nil THEN secrets \ SecretNamed(name) ELSE secrets
           /\ hist' = [hist EXCEPT
                 ![p].issued.delete = @ + 1,
                 ![p].deleteErr = deleteErr,
                 ![p].reported = IF deleteErr # nil /\ ~IsNotFound(deleteErr)
                                 THEN @ \cup {deleteErr} ELSE @]
  /\ pc' = [pc EXCEPT ![p] = "returned"]
  /\ local' = [local EXCEPT ![p].err = nil]
  /\ UNCHANGED <<sa, versions, dockerURL, dockerURLLock, setter,
                 externalDeletes, remaining, prev>>

\* a handler that drops the error createDockercfgSecretIfNeeded returned
HandleErrorDropped(p) ==
  /\ pc[p] = "returned"
  /\ local[p].err # nil
  /\ pc' = [pc EXCEPT ![p] = "handled"]
  /\ UNCHANGED <<sa, versions, secrets, dockerURL, dockerURLLock, setter,
                 externalDeletes, remaining, local, hist, prev>>

\* lines 106-108 and 115-117: the handler hands a non-nil error to HandleError
HandleError(p) ==
  /\ pc[p] = "returned"
  /\ local[p].err # nil
  /\ hist' = [hist EXCEPT ![p].reported = @ \cup {local[p].err}]
  /\ pc' = [pc EXCEPT ![p] = "handled"]
  /\ UNCHANGED <<sa, versions, secrets, dockerURL, dockerURLLock, setter,
                 externalDeletes, remaining, local, prev>>

\* lines 109 and 118: the handler returns to the informer
Finish(p) ==
  /\ \/ pc[p] = "handled"
     \/ pc[p] = "returned" /\ local[p].err = nil
  /\ prev' = [prev EXCEPT ![p] =
       IF hist[p].wrote
       THEN [wrote |-> TRUE, serviceAccount |-> local[p].serviceAccount,
             stored |-> hist[p].stored]
       ELSE NoPrev]
  /\ pc' = [pc EXCEPT ![p] = "idle"]
  /\ local' = [local EXCEPT ![p] = NoLocal]
  /\ hist' = [hist EXCEPT ![p] = NoHist]
  /\ UNCHANGED <<sa, versions, secrets, dockerURL, dockerURLLock, setter,
                 externalDeletes, remaining>>

Handler(p) ==
  \/ Start(p)
  \/ FreshGet(p)
  \/ CreateToken(p)
  \/ PollGet(p)
  \/ DeleteToken(p)
  \/ Lock(p)
  \/ CreateDockercfg(p)
  \/ LinkGet(p)
  \/ LinkUpdate(p)
  \/ DeleteDockercfg(p)
  \/ HandleError(p)
  \/ Finish(p)

\* ------------------------------------------------------------ other actors
Without(seq, name) == SelectSeq(seq, LAMBDA n : n # name)

\* another client of the store adds a reference to the service account
ExternalAppend ==
  /\ sa.ResourceVersion < MaxRV
  /\ \E name \in ExternalNames, mountable \in BOOLEAN :
       LET written ==
             IF mountable
             THEN [sa EXCEPT !.Secrets = Append(@, name),
                             !.ResourceVersion = @ + 1]
             ELSE [sa EXCEPT !.ImagePullSecrets = Append(@, name),
                             !.ResourceVersion = @ + 1]
       IN  /\ name \notin Range(IF mountable THEN sa.Secrets ELSE sa.ImagePullSecrets)
           /\ sa' = written
           /\ versions' = versions \cup {written}
           /\ hist' = MarkConcurrent(hist, 0, written)
  /\ UNCHANGED <<secrets, dockerURL, dockerURLLock, setter,
                 externalDeletes, remaining, pc, local, prev>>

\* another client of the store removes a reference from the service account
ExternalRemove ==
  /\ sa.ResourceVersion < MaxRV
  /\ \E name \in ExternalNames, mountable \in BOOLEAN :
       LET written ==
             IF mountable
             THEN [sa EXCEPT !.Secrets = Without(@, name),
                             !.ResourceVersion = @ + 1]
             ELSE [sa EXCEPT !.ImagePullSecrets = Without(@, name),
                             !.ResourceVersion = @ + 1]
       IN  /\ name \in Range(IF mountable THEN sa.Secrets ELSE sa.ImagePullSecrets)
           /\ sa' = written
           /\ versions' = versions \cup {written}
           /\ hist' = MarkConcurrent(hist, 0, written)
  /\ UNCHANGED <<secrets, dockerURL, dockerURLLock, setter,
                 externalDeletes, remaining, pc, local, prev>>

\* another actor (a user, the secret-deletion controllers) deletes a secret
ExternalDelete ==
  /\ externalDeletes < MaxExternalDeletes
  /\ \E s \in secrets : secrets' = secrets \ {s}
  /\ externalDeletes' = externalDeletes + 1
  /\ UNCHANGED <<sa, versions, dockerURL, dockerURLLock, setter,
                 remaining, pc, local, hist, prev>>

\* the token controller fills the payload of a token secret
FillToken ==
  /\ \E s \in secrets :
       /\ s.Type = "ServiceAccountToken"
       /\ ~s.Filled
       /\ secrets' = (secrets \ {s}) \cup {[s EXCEPT !.Filled = TRUE]}
  /\ UNCHANGED <<sa, versions, dockerURL, dockerURLLock, setter,
                 externalDeletes, remaining, pc, local, hist, prev>>

\* lines 95-97: SetDockerURL is called and takes the lock
SetDockerURLLock ==
  /\ setter = "idle"
  /\ dockerURLLock = 0
  /\ dockerURLLock' = SetterId
  /\ setter' = "locked"
  /\ UNCHANGED <<sa, versions, secrets, dockerURL,
                 externalDeletes, remaining, pc, local, hist, prev>>

\* lines 99-100: newDockerURL is stored and the deferred Unlock runs
SetDockerURLWrite ==
  /\ setter = "locked"
  /\ \E newDockerURL \in URLs : dockerURL' = newDockerURL
  /\ dockerURLLock' = 0
  /\ setter' = "idle"
  /\ UNCHANGED <<sa, versions, secrets, externalDeletes, remaining, pc, local, hist, prev>>

\* one handler goroutine; other clients write the service account
Next ==
  \/ \E p \in Handlers : Handler(p)
  \/ ExternalAppend
  \/ ExternalRemove
  \/ FillToken

Spec == Init /\ [][Next]_vars

\* two invocations of the handler overlap; the token controller runs, secrets get
\* deleted by others, and nobody else writes the service account
NextOverlap ==
  \/ \E p \in Handlers : Handler(p)
  \/ FillToken
  \/ ExternalDelete

SpecOverlap == InitOverlap /\ [][NextOverlap]_vars

\* two invocations of the handler overlap while SetDockerURL is called
NextLock ==
  \/ \E p \in Handlers : Handler(p)
  \/ FillToken
  \/ SetDockerURLLock
  \/ SetDockerURLWrite

SpecLock == InitOverlap /\ [][NextLock]_vars

\* one notification for one handler goroutine
InitOne ==
  /\ InitStore
  /\ remaining = [p \in Handlers |-> IF p = 1 THEN 1 ELSE 0]

\* the steps of an invocation once the handler was called
Invocation(p) ==
  \/ FreshGet(p)
  \/ CreateToken(p)
  \/ PollGet(p)
  \/ DeleteToken(p)
  \/ CreateDockercfg(p)
  \/ LinkGet(p)
  \/ LinkUpdate(p)
  \/ DeleteDockercfg(p)
  \/ HandleError(p)
  \/ Finish(p)

\* one invocation among other writers of the service account, the token controller
\* and callers of SetDockerURL
NextOne ==
  \/ Start(1)
  \/ Invocation(1)
  \/ Lock(1)
  \/ ExternalAppend
  \/ ExternalRemove
  \/ FillToken
  \/ SetDockerURLLock
  \/ SetDockerURLWrite

\* every store call returns, so the goroutine takes its next step; SetDockerURL, once
\* it has the lock, stores and unlocks; a goroutine waiting for the sync.Mutex gets it
\* (the token controller and the other writers are under no obligation)
SpecOne ==
  /\ InitOne
  /\ [][NextOne]_vars
  /\ WF_vars(Invocation(1))
  /\ SF_vars(Lock(1))
  /\ WF_vars(SetDockerURLWrite)

\* names createDockerPullSecretReference may be asked to link
LinkedNames == {DockercfgName(1), DockercfgName(2), TokenName(1)}

\* lines 185-186: createDockerPullSecretReference is called with some snapshot of the
\* service account and some secret name
InitLinker ==
  /\ \E l \in InitialLists : sa = ServiceAccount(0, l[1], l[2])
  /\ versions = {sa}
  /\ secrets = {}
  /\ dockerURL = "registry-a"
  /\ dockerURLLock = 0
  /\ setter = "idle"
  /\ externalDeletes = 0
  /\ prev = [p \in Handlers |-> NoPrev]
  /\ remaining = [p \in Handlers |-> 0]
  /\ \E l \in InitialLists, dockercfgSecretName \in LinkedNames :
       /\ pc = [p \in Handlers |-> IF p = 1 THEN "LinkGet" ELSE "idle"]
       /\ local = [p \in Handlers |->
            IF p = 1
            THEN [NoLocal EXCEPT !.serviceAccount = ServiceAccount(0, l[1], l[2]),
                                 !.branch = "repair",
                                 !.dockercfgSecretName = dockercfgSecretName]
            ELSE NoLocal]
       /\ hist = [p \in Handlers |->
            IF p = 1 THEN [NoHist EXCEPT !.startRV = 0] ELSE NoHist]

\* one call of the linker among other writers of the service account
NextLinker ==
  \/ LinkGet(1)
  \/ LinkUpdate(1)
  \/ ExternalAppend
  \/ ExternalRemove

SpecLinker == InitLinker /\ [][NextLinker]_vars

\* the setting of eventual convergence: at most one list of the service account holds
\* generated names to begin with, and the change feed works by resync alone
InitLive ==
  /\ InitStore
  /\ LET g == getGeneratedDockercfgSecretNames(sa) IN g.mountable = {} \/ g.image = {}
  /\ remaining = [p \in Handlers |-> 0]

\* every store call of the invocation so far succeeded (a Conflict is the answer of a
\* store that works) and the token was filled when it was fetched
Served(p) ==
  /\ local[p].err = nil
  /\ local[p].linkErr \in {nil, Conflict}
  /\ hist[p].deleteErr \in {NoHist.deleteErr, nil}
  /\ local[p].i = 0

\* the handler goroutine under resync with a store that works
LiveHandler(p) ==
  \/ Resync(p)
  \/ FreshGet(p) /\ Served(p)'
  \/ CreateToken(p) /\ Served(p)'
  \/ PollGet(p) /\ Served(p)'
  \/ Lock(p)
  \/ CreateDockercfg(p) /\ Served(p)'
  \/ LinkGet(p) /\ Served(p)'
  \/ LinkUpdate(p) /\ Served(p)'
  \/ DeleteDockercfg(p) /\ Served(p)'
  \/ Finish(p)

NextLive ==
  \/ LiveHandler(1)
  \/ ExternalAppend
  \/ ExternalRemove
  \/ FillToken

\* the handler goroutine keeps running, the resync keeps delivering the stored service
\* account, the token controller fills every token; other writers stop at MaxRV
SpecLive ==
  /\ InitLive
  /\ [][NextLive]_vars
  /\ WF_vars(LiveHandler(1))
  /\ WF_vars(FillToken)

\* ================================================================ properties
Generated(serviceAccount) == getGeneratedDockercfgSecretNames(serviceAccount)

NoGenerated(serviceAccount) ==
  /\ Generated(serviceAccount).mountable = {}
  /\ Generated(serviceAccount).image = {}

Occurrences(seq, name) == Cardinality({k \in 1..Len(seq) : seq[k] = name})

NoDuplicates(seq) == \A k, m \in 1..Len(seq) : seq[k] = seq[m] => k = m

\* the invocation was handed the value the store held when it started
SnapshotFresh(p) == hist[p].startRV = local[p].serviceAccount.ResourceVersion

\* C1 (convergence): when a call that was handed the stored service account, with
\* no generated dockercfg name in either list, returns nil and nobody else wrote the
\* service account meanwhile, the stored service account holds exactly one generated
\* dockercfg name in each list, once, the same in both, and it is the name of the one
\* dockercfg secret the call created.
C1_Convergence ==
  \A p \in Handlers :
    ( /\ Returned(p)
      /\ local[p].err = nil
      /\ NoGenerated(local[p].serviceAccount)
      /\ SnapshotFresh(p)
      /\ hist[p].concurrent = {} )
    => /\ hist[p].createdDockercfg # <<>>
       /\ hist[p].issued.dockercfgCreate = 1
       /\ Generated(sa).mountable = {hist[p].createdDockercfg}
       /\ Generated(sa).image = {hist[p].createdDockercfg}
       /\ Occurrences(sa.Secrets, hist[p].createdDockercfg) = 1
       /\ Occurrences(sa.ImagePullSecrets, hist[p].createdDockercfg) = 1

C1_Witness ==
  /\ Returned(1)
  /\ local[1].err = nil
  /\ NoGenerated(local[1].serviceAccount)
  /\ SnapshotFresh(1)
  /\ hist[1].concurrent = {}
  /\ hist[1].wrote
  /\ sa.Secrets = <<TokenName(1), hist[1].createdDockercfg>>

\* the second of two calls in immediate succession: the first call stored the service
\* account, nothing was written before the second started, and the second is handed
\* the first call's snapshot (now stale) or the value the first call stored
SecondCall(p) ==
  /\ prev[p].wrote
  /\ hist[p].startRV = prev[p].stored.ResourceVersion
  /\ local[p].serviceAccount \in {prev[p].serviceAccount, prev[p].stored}

\* C2 (idempotence): the second of two calls in immediate succession on the same
\* stored service account, given the stale or the fresh snapshot, creates no token
\* secret and no dockercfg secret, and no name appears twice in Secrets or in
\* ImagePullSecrets.
C2_Idempotence ==
  \A p \in Handlers :
    (pc[p] # "idle" /\ SecondCall(p))
    => /\ hist[p].issued.tokenCreate = 0
       /\ hist[p].issued.dockercfgCreate = 0
       /\ NoDuplicates(sa.Secrets)
       /\ NoDuplicates(sa.ImagePullSecrets)

C2_Witness ==
  /\ Returned(1)
  /\ SecondCall(1)
  /\ local[1].serviceAccount = prev[1].serviceAccount
  /\ NoGenerated(local[1].serviceAccount)
  /\ hist[1].rereadRV = sa.ResourceVersion

\* C3 (overlap): two invocations started from the same snapshot without generated
\* names have both returned: the stored service account refers to at most one
\* generated dockercfg name, the same in both lists, and a dockercfg secret whose
\* link met a Conflict is gone unless its Delete call failed.
C3_OverlapSafe ==
  ( /\ Returned(1)
    /\ Returned(2)
    /\ local[1].serviceAccount = local[2].serviceAccount
    /\ NoGenerated(local[1].serviceAccount) )
  => /\ Cardinality(Generated(sa).mountable \cup Generated(sa).image) <= 1
     /\ Generated(sa).mountable = Generated(sa).image
     /\ \A p \in Handlers :
          ( /\ hist[p].createdDockercfg # <<>>
            /\ ~hist[p].wrote
            /\ IsConflict(local[p].linkErr)
            /\ hist[p].deleteErr # ServerError )
          => SecretNamed(hist[p].createdDockercfg) = {}

C3_Witness ==
  /\ Returned(1)
  /\ Returned(2)
  /\ local[1].serviceAccount = local[2].serviceAccount
  /\ hist[1].createdDockercfg # <<>>
  /\ hist[2].createdDockercfg # <<>>
  /\ hist[1].wrote
  /\ IsConflict(local[2].linkErr)
  /\ hist[2].issued.saUpdate = 1
  /\ hist[2].deleteErr = nil

\* a concurrent writer wrote the service account between the classification of the
\* snapshot and the end of the linker
WrittenBeforeLinkEnd(p) == hist[p].concurrent \cap {"beforeGet", "afterGet"} # {}

\* C4 as first stated: whenever a concurrent writer changed a list between the
\* classification and the linker's Update, the linker answers Conflict and the stored
\* service account is what that writer wrote.  (A linker whose store call failed for
\* another reason is left aside.)
C4_AnyChangeConflicts ==
  \A p \in Handlers :
    (hist[p].linked /\ WrittenBeforeLinkEnd(p) /\ local[p].linkErr # ServerError)
    => /\ IsConflict(local[p].linkErr)
       /\ sa = hist[p].foreign

\* C4 (stale decision), amended: when the service account the linker fetched has
\* other generated dockercfg names than the snapshot, or a concurrent writer wrote
\* the service account between the linker's Get and its Update, the linker fails, with
\* Conflict unless a store call failed otherwise, and its write is not applied: the
\* stored service account is what the concurrent writer wrote.
C4_StaleDecision ==
  \A p \in Handlers :
    ( /\ hist[p].linked
      /\ \/ /\ hist[p].liveRead # NoServiceAccount
            /\ Generated(hist[p].liveRead) # Generated(local[p].serviceAccount)
         \/ "afterGet" \in hist[p].concurrent )
    => /\ local[p].linkErr # nil
       /\ local[p].linkErr # ServerError => IsConflict(local[p].linkErr)
       /\ ~hist[p].wrote
       /\ hist[p].concurrent # {} => sa = hist[p].foreign

C4_Witness ==
  /\ hist[1].linked
  /\ hist[1].concurrent = {"afterGet"}
  /\ hist[1].issued.saUpdate = 1
  /\ IsConflict(local[1].linkErr)
  /\ sa = hist[1].foreign

\* C5 (no lost update): once the linker has returned, with or without an error,
\* every entry of the lists a concurrent writer last committed is still in the stored
\* service account; and the object the linker sends in its Update carries the
\* ResourceVersion its own Get returned.
C5_NoLostUpdate ==
  \A p \in Handlers :
    /\ (hist[p].linked /\ hist[p].foreign # NoServiceAccount)
       => /\ Range(hist[p].foreign.Secrets) \subseteq Range(sa.Secrets)
          /\ Range(hist[p].foreign.ImagePullSecrets) \subseteq Range(sa.ImagePullSecrets)
    /\ pc[p] = "LinkUpdate"
       => local[p].liveServiceAccount.ResourceVersion = hist[p].liveRead.ResourceVersion

C5_Witness ==
  /\ hist[1].linked
  /\ hist[1].wrote
  /\ hist[1].concurrent = {"beforeGet"}
  /\ local[1].serviceAccount.ResourceVersion # hist[1].liveRead.ResourceVersion
  /\ TokenName(1) \in Range(hist[1].foreign.Secrets)
  /\ TokenName(1) \in Range(sa.Secrets)

\* the lexicographically first of a non-empty set of names
First(S) == CHOOSE n \in S : \A m \in S : n = m \/ LexLess(n, m)

\* generated names in exactly one of the two lists
PartialState(serviceAccount) ==
  (Generated(serviceAccount).mountable = {}) # (Generated(serviceAccount).image = {})

\* C6 (partial-state repair): a call handed the stored service account, which has
\* generated dockercfg names in exactly one list, that returns nil with no concurrent
\* writer, leaves the lexicographically first generated name of that list in both
\* lists, and issues no Create of a token secret or of a dockercfg secret.
C6_PartialRepair ==
  \A p \in Handlers :
    ( /\ Returned(p)
      /\ local[p].err = nil
      /\ PartialState(local[p].serviceAccount)
      /\ SnapshotFresh(p)
      /\ hist[p].concurrent = {} )
    => LET g == Generated(local[p].serviceAccount)
           name == First(g.mountable \cup g.image)
       IN  /\ name \in Range(sa.Secrets)
           /\ name \in Range(sa.ImagePullSecrets)
           /\ hist[p].issued.tokenCreate = 0
           /\ hist[p].issued.dockercfgCreate = 0

C6_Witness ==
  /\ Returned(1)
  /\ local[1].err = nil
  /\ SnapshotFresh(1)
  /\ hist[1].concurrent = {}
  /\ hist[1].wrote
  /\ local[1].serviceAccount.Secrets = <<DockercfgName(2), TokenName(1), DockercfgName(1)>>
  /\ sa.ImagePullSecrets = <<DockercfgName(1)>>

\* the wait loop of createTokenSecret ran out without seeing a filled token
PollExhausted(p) == Returned(p) /\ local[p].i > tokenSecretWaitTimes

\* C7 as first stated: after a poll that ran out, the token secret is gone and the
\* error is the one naming the token.
C7_TokenAlwaysGone ==
  \A p \in Handlers :
    PollExhausted(p)
    => /\ SecretNamed(local[p].tokenSecret) = {}
       /\ local[p].err = TokenNeverGenerated(local[p].tokenSecret)

\* C7 (token timeout cleanup), amended: after a poll that ran out, createTokenSecret
\* returns the error naming the token, and the token secret is gone unless the Delete
\* call itself failed.
C7_TimeoutCleanup ==
  \A p \in Handlers :
    PollExhausted(p)
    => /\ local[p].err = TokenNeverGenerated(local[p].tokenSecret)
       /\ local[p].tokenSecret # <<>>
       /\ hist[p].deleteErr # ServerError => SecretNamed(local[p].tokenSecret) = {}

C7_Witness ==
  /\ PollExhausted(1)
  /\ hist[1].deleteErr = nil
  /\ hist[1].issued.delete = 1
  /\ secrets = {}

\* the dockercfg secret was created and the linker answered Conflict
LinkConflictAfterCreate(p) ==
  /\ Returned(p)
  /\ hist[p].createdDockercfg # <<>>
  /\ IsConflict(local[p].linkErr)

InLists(serviceAccount, name) ==
  name \in Range(serviceAccount.Secrets) \cup Range(serviceAccount.ImagePullSecrets)

\* C8 as first stated: after a Conflict from the linker the created dockercfg secret
\* is gone, the service account does not refer to it, and the call returns nil.
C8_OrphanAlwaysGone ==
  \A p \in Handlers :
    LinkConflictAfterCreate(p)
    => /\ SecretNamed(hist[p].createdDockercfg) = {}
       /\ ~InLists(sa, hist[p].createdDockercfg)
       /\ local[p].err = nil

\* C8 (orphan cleanup), amended: after a Conflict from the linker the call returns
\* nil, the service account does not refer to the created dockercfg secret, and that
\* secret is gone unless the Delete call itself failed.
C8_OrphanCleanup ==
  \A p \in Handlers :
    LinkConflictAfterCreate(p)
    => /\ local[p].err = nil
       /\ ~InLists(sa, hist[p].createdDockercfg)
       /\ hist[p].deleteErr # ServerError => SecretNamed(hist[p].createdDockercfg) = {}

C8_Witness ==
  /\ LinkConflictAfterCreate(1)
  /\ hist[1].deleteErr = nil
  /\ hist[1].issued.delete = 1
  /\ SecretNamed(hist[1].createdDockercfg) = {}
  /\ SecretNamed(hist[1].createdToken) # {}

\* C9 (freshness guard): a call whose snapshot has no generated names and whose
\* re-read shows another ResourceVersion returns nil and has issued no Create, no
\* Update and no Delete; and a Create is only ever issued after a re-read that showed
\* the snapshot's ResourceVersion.
C9_FreshnessGuard ==
  \A p \in Handlers :
    /\ ( /\ Returned(p)
         /\ NoGenerated(local[p].serviceAccount)
         /\ hist[p].rereadRV # -1
         /\ hist[p].rereadRV # local[p].serviceAccount.ResourceVersion )
       => /\ local[p].err = nil
          /\ hist[p].issued = NoHist.issued
          /\ ~hist[p].wrote
          /\ hist[p].createdToken = <<>>
          /\ hist[p].createdDockercfg = <<>>
    /\ (hist[p].issued.tokenCreate > 0 \/ hist[p].issued.dockercfgCreate > 0)
       => hist[p].rereadRV = local[p].serviceAccount.ResourceVersion

C9_Witness ==
  /\ Returned(1)
  /\ NoGenerated(local[1].serviceAccount)
  /\ hist[1].rereadRV = 1
  /\ local[1].serviceAccount.ResourceVersion = 0
  /\ local[1].err = nil

\* a store call of the invocation is outstanding
StoreCallOutstanding(p) ==
  pc[p] \in {"FreshGet", "CreateToken", "PollGet", "DeleteToken", "CreateDockercfg",
             "LinkGet", "LinkUpdate", "DeleteDockercfg"}

\* C10 as first stated: no invocation holds dockerURLLock while a store call of the
\* controller is outstanding.
C10_LockNeverAcrossStoreCall ==
  \A p \in Handlers : StoreCallOutstanding(p) => dockerURLLock \notin Handlers

\* C10 (the dockerURL lock), amended: an invocation holds dockerURLLock only while
\* its Create of the dockercfg secret is outstanding; during every other store call
\* it issues (Get, Update, Delete, the Create of the token secret) it does not hold
\* the lock.
C10_LockOnlyAcrossDockercfgCreate ==
  \A p \in Handlers : dockerURLLock = p => pc[p] = "CreateDockercfg"

C10_Witness ==
  /\ pc[1] = "LinkGet"
  /\ hist[1].createdDockercfg # <<>>
  /\ dockerURLLock = SetterId
  /\ pc[2] = "CreateToken"

\* ---------------------------------------------------------------------- C11
\* the linker has answered and createDockercfgSecretIfNeeded has returned
LinkAnswered(p) == pc[p] \in {"returned", "handled"} /\ hist[p].linked

\* C11: in the repair branch and in the create branch alike, when
\* createDockerPullSecretReference answers Conflict, createDockercfgSecretIfNeeded
\* returns nil; when it answers any other error, createDockercfgSecretIfNeeded returns
\* that very error.
C11_ConflictNonFatal ==
  \A p \in Handlers :
    LinkAnswered(p) =>
      /\ local[p].branch \in {"repair", "create"}
      /\ IsConflict(local[p].linkErr) => local[p].err = nil
      /\ ~IsConflict(local[p].linkErr) => local[p].err = local[p].linkErr

\* a repair met a Conflict and returned nil
C11_Witness ==
  /\ LinkAnswered(1)
  /\ local[1].branch = "repair"
  /\ IsConflict(local[1].linkErr)
  /\ local[1].err = nil

\* a create met another error of the linker and returned it
C11_WitnessCreate ==
  /\ LinkAnswered(1)
  /\ local[1].branch = "create"
  /\ local[1].linkErr = ServerError
  /\ local[1].err = ServerError

\* ---------------------------------------------------------------------- C12
\* lines 174-176 and 262-263: a cleanup Delete failed with an error other than NotFound
CleanupDeleteFailed(p) ==
  /\ hist[p].issued.delete > 0
  /\ hist[p].deleteErr # nil
  /\ ~IsNotFound(hist[p].deleteErr)

\* C12 as the claim words it: whatever reached the error sink during an invocation was put
\* there by the handler and is the error createDockercfgSecretIfNeeded returned; when it
\* returned nil, nothing reached the sink.
C12_RouterSoleReporter ==
  \A p \in Handlers :
    \A e \in hist[p].reported : pc[p] = "handled" /\ e = local[p].err

\* C12, amended: the handler reports the error createDockercfgSecretIfNeeded returned,
\* and nothing when it returned nil; besides that, the only errors that reach the sink
\* during an invocation are those of a failed cleanup Delete (other than NotFound),
\* which createTokenSecret and createDockercfgSecretIfNeeded report themselves.
C12_ReportedErrors ==
  \A p \in Handlers :
    /\ \A e \in hist[p].reported :
         \/ pc[p] = "handled" /\ e = local[p].err
         \/ CleanupDeleteFailed(p) /\ e = hist[p].deleteErr
    /\ pc[p] = "handled" => local[p].err # nil /\ local[p].err \in hist[p].reported
    /\ CleanupDeleteFailed(p) => hist[p].deleteErr \in hist[p].reported

\* the Delete of the unlinked dockercfg secret failed: its error is in the sink although
\* createDockercfgSecretIfNeeded returned nil
C12_Witness ==
  /\ Returned(1)
  /\ local[1].err = nil
  /\ hist[1].createdDockercfg # <<>>
  /\ CleanupDeleteFailed(1)
  /\ hist[1].reported = {ServerError}

\* ---------------------------------------------------------------------- C13
\* C13: within one invocation of createDockercfgSecretIfNeeded at most one Update of the
\* service account, at most one Create of a token secret and at most one Create of a
\* dockercfg secret are issued, whatever the store answers; once the linker has answered
\* Conflict the invocation is never again in the linker.
C13_NoInternalRetry ==
  \A p \in Handlers :
    /\ hist[p].issued.saUpdate <= 1
    /\ hist[p].issued.tokenCreate <= 1
    /\ hist[p].issued.dockercfgCreate <= 1
    /\ IsConflict(local[p].linkErr) => pc[p] \notin {"LinkGet", "LinkUpdate"}

\* the Update of a create met a Conflict and the invocation returned after one Update
C13_Witness ==
  /\ Returned(1)
  /\ IsConflict(local[1].linkErr)
  /\ hist[1].issued.saUpdate = 1
  /\ hist[1].issued.tokenCreate = 1
  /\ hist[1].issued.dockercfgCreate = 1

\* ---------------------------------------------------------------------- C14
\* lines 123-131: the invocation's snapshot holds a generated name in each list
FoundBoth(p) ==
  /\ pc[p] # "idle"
  /\ Generated(local[p].serviceAccount).mountable # {}
  /\ Generated(local[p].serviceAccount).image # {}

\* the invocation has issued no call to the store
NoStoreCall(p) ==
  /\ hist[p].issued = NoHist.issued
  /\ hist[p].rereadRV = -1
  /\ hist[p].liveRead = NoServiceAccount
  /\ ~hist[p].linked

\* the part of C14 that holds: with a generated name in each list of the snapshot,
\* createDockercfgSecretIfNeeded returns nil and calls the store not once.
C14_NoStoreCall ==
  \A p \in Handlers :
    FoundBoth(p) => Returned(p) /\ local[p].err = nil /\ NoStoreCall(p)

\* C14: whenever each list of the snapshot holds a generated dockercfg name,
\* createDockercfgSecretIfNeeded returns nil without a store call, and the two lists of
\* that snapshot share a generated dockercfg name.
C14_ConvergedNoOp ==
  \A p \in Handlers :
    FoundBoth(p) =>
      /\ Returned(p) /\ local[p].err = nil /\ NoStoreCall(p)
      /\ Generated(local[p].serviceAccount).mountable
            \cap Generated(local[p].serviceAccount).image # {}

\* ---------------------------------------------------------------------- C15
\* the stored service account has a common generated dockercfg name in both lists
Converged == Generated(sa).mountable \cap Generated(sa).image # {}

\* what the code reaches: each list of the stored service account holds a generated name
FoundInBoth == Generated(sa).mountable # {} /\ Generated(sa).image # {}

\* under resync, a working store and filled tokens, eventually and for good each list
\* of the stored service account holds a generated dockercfg name
C15_EventuallyFoundInBoth == <>[]FoundInBoth

\* C15: under resync, finitely many writes of others, a working store and filled
\* tokens, eventually the stored service account has a common generated dockercfg name
\* in both lists, and from then on no step of the controller changes the service account.
C15_EventualConvergence ==
  /\ <>[]Converged
  /\ [][Converged /\ pc' # pc => sa' = sa]_vars

\* ---------------------------------------------------------------------- C16
\* createDockercfgSecretIfNeeded has returned
Done(p) == pc[p] \in {"returned", "handled"}

\* lines 262: the invocation issued the Delete of its token secret
TokenDeleteIssued(p) == hist[p].issued.delete > 0 /\ hist[p].issued.dockercfgCreate = 0

\* lines 247-250: a Get of the wait loop failed
PollGetFailed(p) ==
  /\ Done(p)
  /\ hist[p].createdToken # <<>>
  /\ hist[p].issued.dockercfgCreate = 0
  /\ local[p].err \in {ServerError, NotFound(hist[p].createdToken)}

\* lines 307-309: the Create of the dockercfg secret failed
DockercfgCreateFailed(p) ==
  /\ Done(p)
  /\ hist[p].issued.dockercfgCreate = 1
  /\ hist[p].createdDockercfg = <<>>

\* C16: the Delete of the token secret is issued only after more unfilled fetches than
\* the wait loop allows; when a Get of the wait loop fails, that Get was the last one,
\* its error is returned, no Delete is issued and the token secret stays; when the
\* Create of the dockercfg secret fails, the store's error is returned, no Delete is
\* issued and the filled token secret stays in the store.
C16_TokenDeletedOnlyOnTimeout ==
  \A p \in Handlers :
    /\ TokenDeleteIssued(p) =>
         /\ local[p].i > tokenSecretWaitTimes
         /\ hist[p].issued.tokenGet = local[p].i
    /\ PollGetFailed(p) =>
         /\ hist[p].issued.tokenGet = local[p].i + 1
         /\ hist[p].issued.delete = 0
         /\ local[p].err = ServerError => SecretNamed(hist[p].createdToken) # {}
    /\ DockercfgCreateFailed(p) =>
         /\ local[p].err.reason \in {"ServerError", "AlreadyExists"}
         /\ hist[p].issued.delete = 0
         /\ \E s \in SecretNamed(hist[p].createdToken) : s.Filled

\* the Create of the dockercfg secret failed and the filled token is still there
C16_Witness ==
  /\ DockercfgCreateFailed(1)
  /\ local[1].err = ServerError
  /\ hist[1].issued.delete = 0
  /\ \E s \in SecretNamed(hist[1].createdToken) : s.Filled

\* the second Get of the wait loop failed and the unfilled token is still there
C16_WitnessGet ==
  /\ PollGetFailed(1)
  /\ hist[1].issued.tokenGet = 2
  /\ \E s \in SecretNamed(hist[1].createdToken) : ~s.Filled

\* ---------------------------------------------------------------------- C17
\* lines 170-181: the linker failed, not with a Conflict, after the dockercfg secret
\* was created
LinkFailedAfterCreate(p) ==
  /\ Done(p)
  /\ hist[p].createdDockercfg # <<>>
  /\ hist[p].linked
  /\ local[p].linkErr # nil
  /\ ~IsConflict(local[p].linkErr)

\* C17: the Delete of a dockercfg secret the invocation created is issued only after the
\* linker answered Conflict; when the linker fails with another error after the Create,
\* createDockercfgSecretIfNeeded returns that error and issues no Delete, and the
\* dockercfg secret stays in the store, referenced by neither list.
C17_DockercfgDeletedOnlyOnConflict ==
  \A p \in Handlers :
    /\ hist[p].issued.delete > 0 /\ hist[p].createdDockercfg # <<>> =>
         IsConflict(local[p].linkErr)
    /\ LinkFailedAfterCreate(p) =>
         /\ local[p].err = local[p].linkErr
         /\ hist[p].issued.delete = 0
         /\ SecretNamed(hist[p].createdDockercfg) # {}
         /\ ~InLists(sa, hist[p].createdDockercfg)

\* the Update of the linker failed with a server error: the dockercfg secret is left
C17_Witness ==
  /\ LinkFailedAfterCreate(1)
  /\ hist[1].issued.saUpdate = 1
  /\ local[1].err = ServerError
  /\ hist[1].issued.delete = 0
  /\ SecretNamed(hist[1].createdDockercfg) # {}

\* ---------------------------------------------------------------------- C18
\* C18: every invocation of createDockercfgSecretIfNeeded that was started returns,
\* whether or not the token is ever filled and whatever other writers do to the
\* service account meanwhile, given that every store call returns.
C18_Termination == \A p \in Handlers : (pc[p] # "idle") ~> Done(p)

\* the token was never filled, others wrote the service account meanwhile, and the
\* invocation returned
C18_Witness ==
  /\ Done(1)
  /\ local[1].i > tokenSecretWaitTimes
  /\ hist[1].concurrent # {}
  /\ \A s \in secrets : ~s.Filled

\* ---------------------------------------------------------------------- C19
\* C19: createTokenSecret fetches the token secret at most tokenSecretWaitTimes times;
\* when a fetch shows the token filled it goes on to the dockercfg secret and fetches no
\* more; the Delete after the loop is reached after exactly tokenSecretWaitTimes
\* unfilled fetches.
C19_PollBound ==
  \A p \in Handlers :
    /\ hist[p].issued.tokenGet <= tokenSecretWaitTimes
    /\ pc[p] \in {"Lock", "CreateDockercfg"} =>
         hist[p].issued.tokenGet = local[p].i + 1
    /\ pc[p] = "DeleteToken" \/ TokenDeleteIssued(p) =>
         local[p].i = tokenSecretWaitTimes

\* what the loop of line 246 does: at most tokenSecretWaitTimes + 1 fetches; a filled
\* fetch is the last one; the Delete comes after tokenSecretWaitTimes + 1 unfilled ones
C19_PollBoundOfTheLoop ==
  \A p \in Handlers :
    /\ hist[p].issued.tokenGet <= tokenSecretWaitTimes + 1
    /\ pc[p] \in {"Lock", "CreateDockercfg"} =>
         hist[p].issued.tokenGet = local[p].i + 1
    /\ pc[p] = "DeleteToken" \/ TokenDeleteIssued(p) =>
         /\ local[p].i = tokenSecretWaitTimes + 1
         /\ hist[p].issued.tokenGet = tokenSecretWaitTimes + 1

\* ---------------------------------------------------------------------- C20
\* a step of createDockerPullSecretReference
LinkerStep(p) == pc[p] \in {"LinkGet", "LinkUpdate"} /\ pc'[p] # pc[p]

\* the list is as it was, or has the name added at its end, which only happens when the
\* generated names of the list did not include it
AppendedOnce(old, new, name, generated) ==
  \/ new = old
  \/ new = Append(old, name) /\ name \notin generated

\* C20: a step of createDockerPullSecretReference leaves the stored service account
\* as it is or appends dockercfgSecretName at the end of Secrets and/or ImagePullSecrets,
\* once, and only to a list whose generated names did not include it; no entry is
\* removed or moved, the service account stays, and when the generated names of both
\* lists include the name no Update is issued.
C20_LinkerFrame ==
  [][\A p \in Handlers :
       LinkerStep(p) =>
         LET name == local[p].dockercfgSecretName
         IN  /\ sa'.Name = sa.Name
             /\ AppendedOnce(sa.Secrets, sa'.Secrets, name, Generated(sa).mountable)
             /\ AppendedOnce(sa.ImagePullSecrets, sa'.ImagePullSecrets, name,
                             Generated(sa).image)
             /\ sa' # sa => hist'[p].issued.saUpdate = 1
             /\ name \in Generated(sa).mountable \cap Generated(sa).image =>
                  /\ pc'[p] # "LinkUpdate"
                  /\ hist'[p].issued.saUpdate = 0]_vars

\* the linker appended the name to ImagePullSecrets alone
C20_Witness ==
  /\ hist[1].wrote
  /\ sa = hist[1].stored
  /\ sa.Secrets = hist[1].liveRead.Secrets
  /\ sa.ImagePullSecrets = Append(hist[1].liveRead.ImagePullSecrets,
                                  local[1].dockercfgSecretName)

\* both lists held the name: the linker returned nil without an Update
C20_WitnessNoUpdate ==
  /\ Returned(1)
  /\ hist[1].linked
  /\ local[1].linkErr = nil
  /\ hist[1].issued.saUpdate = 0
  /\ local[1].dockercfgSecretName
       \in Generated(sa).mountable \cap Generated(sa).image
====
